---- MODULE Spec2Model ----
(***************************************************************************)
(* A model of the smac_planner facade (SmacPlanner::configure and          *)
(* SmacPlanner::createPlan), of the SE(2) search node (NodeSE2) and of     *)
(* its motion table (MotionTable).                                         *)
(*                                                                         *)
(* Three specifications share the module:                                  *)
(*   Spec        the planner facade: configure, then one createPlan,       *)
(*               followed statement by statement;                          *)
(*   SpecNode    one NodeSE2 object and the operations on it;              *)
(*   SpecMotion  the motion table shared by all nodes and its three        *)
(*               initialisers.                                             *)
(*                                                                         *)
(* Numbers.  World coordinates (double, metres) are fixed-point integers:  *)
(* one unit is a tenth of a cell.  Angles are integers in degrees in the   *)
(* facade and in thousandths of a degree in the motion table.  Lengths of  *)
(* the motion table are in millionths of a cell.                           *)
(***************************************************************************)
EXTENDS Integers, Sequences, FiniteSets, TLC

(***************************************************************************)
(* Bounds of the model.                                                    *)
(***************************************************************************)
\* Number of cells of the one-row costmap the facade plans on.
SizeX == 13
\* The finite max_iterations the model configures besides the unlimited one.
SmallBudget == 4
\* Largest linear index a node is given in SpecNode.
MaxIndex == 1
\* Half the largest coordinate of the waypoints removeHook is tried on.
MaxCoord == 2

(***************************************************************************)
(* Program constants.                                                      *)
(***************************************************************************)
\* Cell-cost sentinels of the planner (the constants header is not part of
\* the sources at hand; the values are the costmap's).
FREE == 0
INSCRIBED == 253
OCCUPIED == 254
UNKNOWN == 255
\* std::numeric_limits<int>::max()
INT_MAX == 2147483647
\* Stand-in for std::numeric_limits<float>::max(): larger than every
\* accumulated cost the model can reach.
FLT_MAX == 2000000000
\* const int downsample_ratio = 4
downsample_ratio == 4
\* Default travel_cost_scale 0.8, in tenths.
travel_cost_scale == 8

VARIABLES
  \* ---- planner facade (Spec) ----
  pc,            \* position in configure / createPlan
  cfg,           \* what configure left in the planner's members
  costmap,       \* the costmap: sizes, resolution, origin, char map
  mutex,         \* holder of the costmap's mutex
  req,           \* the arguments of the createPlan in progress
  a_star,        \* the A* engine: start, goal, graph, queue, iterations
  path,          \* IndexPath path (createPlan local)
  num_iterations,\* int num_iterations (createPlan local)
  error,         \* std::string error (createPlan local)
  path_world,    \* std::vector<Eigen::Vector2d> path_world
  plan,          \* nav_msgs::msg::Path plan: the poses' positions
  trace,         \* history: calls made, what they were given and returned
  \* ---- one NodeSE2 (SpecNode) ----
  node,          \* the node's fields
  node_call,     \* history: the last operation on the node
  \* ---- the shared motion table (SpecMotion) ----
  motion_table,  \* NodeSE2::_motion_model
  motion_call    \* history: the last initialiser and its arguments

plannerVars == <<pc, cfg, costmap, mutex, req, a_star, path, num_iterations,
                 error, path_world, plan, trace>>
nodeVars == <<node, node_call>>
motionVars == <<motion_table, motion_call>>
vars == <<plannerVars, nodeVars, motionVars>>

(***************************************************************************)
(* Helpers.                                                                *)
(***************************************************************************)
Last(s) == s[Len(s)]

\* Floor of the square root of a natural number up to limit^2.
ISqrt(v, limit) == CHOOSE r \in 0..limit : r * r <= v /\ v < (r + 1) * (r + 1)

(***************************************************************************)
(* NodeSE2 (node_se2.cpp).                                                 *)
(***************************************************************************)
\* parent(nullptr): no index of the pool.
NoParent == -1

\* The pose of a node nobody has called setPose on: the default-constructed
\* Pose member (the constructor's initialiser list does not name it).
DefaultPose == <<0, 0, 0>>

\* NodeSE2::NodeSE2(cost_in, index)
NewNodeSE2(cost_in, index) ==
  [ parent |-> NoParent,
    cell_cost |-> cost_in,
    accumulated_cost |-> FLT_MAX,
    index |-> index,
    was_visited |-> FALSE,
    is_queued |-> FALSE,
    pose |-> DefaultPose ]

\* NodeSE2::reset(cost, index): six assignments; pose is not among them.
reset(n, cost, index) ==
  [ n EXCEPT !.parent = NoParent,
             !.cell_cost = cost,
             !.accumulated_cost = FLT_MAX,
             !.index = index,
             !.was_visited = FALSE,
             !.is_queued = FALSE ]

\* isNodeValid without the test for INSCRIBED.
isNodeValidNoInscribed(n, traverse_unknown) ==
  IF n.cell_cost = OCCUPIED
  THEN FALSE
  ELSE IF n.cell_cost = UNKNOWN /\ ~traverse_unknown
       THEN FALSE
       ELSE TRUE

\* NodeSE2::isNodeValid(traverse_unknown)
isNodeValid(n, traverse_unknown) ==
  IF n.cell_cost = OCCUPIED \/ n.cell_cost = INSCRIBED
  THEN FALSE
  ELSE IF n.cell_cost = UNKNOWN /\ ~traverse_unknown
       THEN FALSE
       ELSE TRUE

(***************************************************************************)
(* SpecNode: one NodeSE2 and the operations a plan performs on it.         *)
(***************************************************************************)
\* Every value of an unsigned char cell cost.
CellCosts == 0..255
\* Accumulated costs a search gives a node.
AccumulatedCosts == {7}
\* Poses getNeighbors gives a node (cells, cells, heading bin).
NeighborPoses == {<<2, 1, 3>>}
\* Costs reset gives a node: the sentinels and one cost in between.
ResetCosts == {FREE, 100, INSCRIBED, OCCUPIED, UNKNOWN}

NodeInit ==
  /\ \E c \in CellCosts, i \in 0..MaxIndex : node = NewNodeSE2(c, i)
  /\ node_call = [op |-> "construct", arg |-> FALSE, ret |-> FALSE,
                        before |-> FALSE]

\* bool isNodeValid(traverse_unknown): reads the cost, writes nothing.
NodeIsNodeValid ==
  /\ \E tu \in BOOLEAN :
       /\ node' = node
       /\ node_call' = [op |-> "isNodeValid", arg |-> tu,
                        ret |-> isNodeValid(node, tu), before |-> node]
  /\ UNCHANGED <<plannerVars, motionVars>>

\* setAccumulatedCost(cost)
NodeSetAccumulatedCost ==
  /\ \E c \in AccumulatedCosts :
       /\ node' = [node EXCEPT !.accumulated_cost = c]
       /\ node_call' = [op |-> "setAccumulatedCost", arg |-> FALSE, ret |-> FALSE,
                        before |-> FALSE]
  /\ UNCHANGED <<plannerVars, motionVars>>

\* visited(): the node leaves the open set
NodeVisited ==
  /\ node' = [node EXCEPT !.was_visited = TRUE, !.is_queued = FALSE]
  /\ node_call' = [op |-> "visited", arg |-> FALSE, ret |-> FALSE,
                        before |-> FALSE]
  /\ UNCHANGED <<plannerVars, motionVars>>

\* queued()
NodeQueued ==
  /\ node' = [node EXCEPT !.is_queued = TRUE]
  /\ node_call' = [op |-> "queued", arg |-> FALSE, ret |-> FALSE,
                        before |-> FALSE]
  /\ UNCHANGED <<plannerVars, motionVars>>

\* parent = <another node of the pool>
NodeSetParent ==
  /\ \E p \in 0..MaxIndex :
       /\ node' = [node EXCEPT !.parent = p]
       /\ node_call' = [op |-> "setParent", arg |-> FALSE, ret |-> FALSE,
                        before |-> FALSE]
  /\ UNCHANGED <<plannerVars, motionVars>>

\* neighbor->setPose(motion_projections[i]) in getNeighbors
NodeSetPose ==
  /\ \E p \in NeighborPoses :
       /\ node' = [node EXCEPT !.pose = p]
       /\ node_call' = [op |-> "setPose", arg |-> FALSE, ret |-> FALSE,
                        before |-> FALSE]
  /\ UNCHANGED <<plannerVars, motionVars>>

\* reset(cost, index)
NodeReset ==
  /\ \E c \in ResetCosts, i \in 0..MaxIndex :
       /\ node' = reset(node, c, i)
       /\ node_call' = [op |-> "reset", arg |-> <<c, i>>, ret |-> FALSE,
                        before |-> FALSE]
  /\ UNCHANGED <<plannerVars, motionVars>>

NodeNext ==
  \/ NodeIsNodeValid
  \/ NodeSetAccumulatedCost
  \/ NodeVisited
  \/ NodeQueued
  \/ NodeSetParent
  \/ NodeSetPose
  \/ NodeReset

(***************************************************************************)
(* MotionTable (node_se2.cpp).  Angles in thousandths of a degree, lengths *)
(* in millionths of a cell, the turning radius in hundredths of a cell.    *)
(***************************************************************************)
\* 10^6 * sin of 0, 5, ..., 90 degrees (libm's sin, tabulated).
SinTable ==
  <<0, 87156, 173648, 258819, 342020, 422618, 500000, 573576, 642788, 707107,
    766044, 819152, 866025, 906308, 939693, 965926, 984808, 996195, 1000000>>

\* 10^6 * sin(mdeg), mdeg a multiple of 5 degrees of either sign.
Sin(mdeg) ==
  LET d == (mdeg \div 1000) % 360
  IN  IF d <= 90 THEN SinTable[d \div 5 + 1]
      ELSE IF d <= 180 THEN SinTable[(180 - d) \div 5 + 1]
      ELSE IF d <= 270 THEN -SinTable[(d - 180) \div 5 + 1]
      ELSE -SinTable[(360 - d) \div 5 + 1]

Cos(mdeg) == Sin(mdeg + 90000)

\* Minimum turning radii (hundredths of a cell) for which asin's argument
\* sqrt(2) / (2 R) lies in [0, 1], and 2 * asin(sqrt_2 / (2 * R)) for each,
\* as the float the code stores (R = 1 gives a float just below pi / 2).
TurningRadii == {71, 75, 100, 120, 150, 200, 300, 500, 2000}

AsinAngle(r) ==
  CASE r = 71 -> 169652
    [] r = 75 -> 141058
    [] r = 100 -> 89999
    [] r = 120 -> 72208
    [] r = 150 -> 56251
    [] r = 200 -> 41410
    [] r = 300 -> 27266
    [] r = 500 -> 16260
    [] r = 2000 -> 4052

\* Angular bin counts whose bin is a whole multiple of 5 degrees.
AngleQuantizations == {1, 2, 3, 4, 6, 8, 9, 12, 18, 24, 36, 72}

\* const float sqrt_2 = sqrt(2.0)
sqrt_2 == 1414214

\* bin_size = 2 pi / num_angle_quantization
BinSize(num_angle_quantization) == 360000 \div num_angle_quantization

\* The angle of the turning primitives: lines 53-63 (and 92-100).
TurnAngle(num_angle_quantization, min_turning_radius) ==
  LET angle == AsinAngle(min_turning_radius)
      bin_size == BinSize(num_angle_quantization)
  IN  IF angle < bin_size THEN bin_size
      ELSE IF angle > bin_size
           THEN LET increments == (angle + bin_size - 1) \div bin_size  \* ceil
                IN  bin_size * increments
           ELSE angle

\* delta_x = R sin(angle)
DeltaX(min_turning_radius, angle) == (min_turning_radius * Sin(angle)) \div 100

\* delta_y = R cos(angle) - R
DeltaY(min_turning_radius, angle) ==
  (min_turning_radius * Cos(angle)) \div 100 - min_turning_radius * 10000

\* initDubin with a forward primitive of a quarter of sqrt_2.
DubinShortForward(size_x_in, num_angle_quantization_in, min_turning_radius) ==
  LET angle == TurnAngle(num_angle_quantization_in, min_turning_radius)
      delta_x == DeltaX(min_turning_radius, angle)
      delta_y == DeltaY(min_turning_radius, angle)
  IN  [ size_x |-> size_x_in,
        num_angle_quantization |-> num_angle_quantization_in,
        projections |-> << <<sqrt_2 \div 4, 0, 0>>,
                           <<delta_x, delta_y, angle>>,
                           <<delta_x, -delta_y, -angle>> >> ]

\* MotionTable::initDubin
initDubin(size_x_in, num_angle_quantization_in, min_turning_radius) ==
  LET angle == TurnAngle(num_angle_quantization_in, min_turning_radius)
      delta_x == DeltaX(min_turning_radius, angle)
      delta_y == DeltaY(min_turning_radius, angle)
  IN  [ size_x |-> size_x_in,
        num_angle_quantization |-> num_angle_quantization_in,
        projections |-> << <<sqrt_2, 0, 0>>,                   \* Forward
                           <<delta_x, delta_y, angle>>,        \* Left
                           <<delta_x, -delta_y, -angle>> >> ]  \* Right

\* initReedsShepp without projections.clear().
ReedsSheppWithoutClear(size_x_in, num_angle_quantization_in, min_turning_radius) ==
  LET angle == TurnAngle(num_angle_quantization_in, min_turning_radius)
      delta_x == DeltaX(min_turning_radius, angle)
      delta_y == DeltaY(min_turning_radius, angle)
  IN  [ size_x |-> size_x_in,
        num_angle_quantization |-> num_angle_quantization_in,
        projections |-> motion_table.projections
                        \o << <<sqrt_2, 0, 0>>,
                              <<delta_x, delta_y, angle>>,
                              <<delta_x, -delta_y, -angle>>,
                              <<-sqrt_2, 0, 0>>,
                              <<-delta_x, delta_y, angle>>,
                              <<-delta_x, -delta_y, -angle>> >> ]

\* MotionTable::initReedsShepp
initReedsShepp(size_x_in, num_angle_quantization_in, min_turning_radius) ==
  LET angle == TurnAngle(num_angle_quantization_in, min_turning_radius)
      delta_x == DeltaX(min_turning_radius, angle)
      delta_y == DeltaY(min_turning_radius, angle)
  IN  [ size_x |-> size_x_in,
        num_angle_quantization |-> num_angle_quantization_in,
        projections |-> << <<sqrt_2, 0, 0>>,
                           <<delta_x, delta_y, angle>>,
                           <<delta_x, -delta_y, -angle>>,
                           <<-sqrt_2, 0, 0>>,
                           <<-delta_x, delta_y, angle>>,
                           <<-delta_x, -delta_y, -angle>> >> ]

\* MotionTable::initBalkcomMason
initBalkcomMason(size_x_in, num_angle_quantization_in) ==
  LET delta_angle == BinSize(num_angle_quantization_in)
  IN  [ size_x |-> size_x_in,
        num_angle_quantization |-> num_angle_quantization_in,
        projections |-> << <<sqrt_2, 0, 0>>,               \* Forward
                           <<-sqrt_2, 0, 0>>,              \* Backward
                           <<0, 0, delta_angle>>,          \* Spin left
                           <<0, 0, -delta_angle>>,         \* Spin right
                           <<sqrt_2, 0, delta_angle>>,     \* Spin left + Forward
                           <<-sqrt_2, 0, delta_angle>>,    \* Spin left + Backward
                           <<sqrt_2, 0, -delta_angle>>,    \* Spin right + Forward
                           <<-sqrt_2, 0, -delta_angle>> >> ]

\* MotionTable::getProjection: node->pose + projections[motion_index]
getProjection(pose, motion_index) ==
  LET p == motion_table.projections[motion_index]
  IN  <<pose[1] + p[1], pose[2] + p[2], pose[3] + p[3]>>

\* MotionTable::getProjections
getProjections(pose) ==
  [i \in 1..Len(motion_table.projections) |-> getProjection(pose, i)]

\* The grid cell of a continuous map coordinate (millionths of a cell).
CellOf(coord) == coord \div 1000000

\* The pose at the centre of cell (x, y) with heading theta.
CellCentre(x, y, theta) == <<x * 1000000 + 500000, y * 1000000 + 500000, theta>>

(***************************************************************************)
(* SpecMotion: the table shared by all nodes, initialised any number of    *)
(* times with any model.                                                   *)
(***************************************************************************)
\* The history of the table: the last initialiser, its arguments and the
\* number of primitives it found in the table; the pose getProjections was
\* last given and what it returned.
NoMotionCall ==
  [ op |-> "none", n |-> 0, r |-> 0, found |-> 0,
    projected |-> FALSE, pose |-> DefaultPose, ret |-> <<>> ]

\* Poses of the nodes getProjections is called for.
ProjectionPoses ==
  { DefaultPose, CellCentre(3, 2, 0), CellCentre(0, 1, 90000) }

\* NodeSE2::_motion_model is a static object: zero-initialised, no primitive.
MotionInit ==
  /\ motion_table = [size_x |-> 0, num_angle_quantization |-> 0,
                     projections |-> <<>>]
  /\ motion_call = NoMotionCall

\* NodeSE2::initMotionModel, case DUBIN
MotionInitDubin ==
  /\ \E n \in AngleQuantizations, r \in TurningRadii :
       /\ motion_table' = initDubin(SizeX, n, r)
       /\ motion_call' = [NoMotionCall EXCEPT
                            !.op = "initDubin", !.n = n, !.r = r,
                            !.found = Len(motion_table.projections)]
  /\ UNCHANGED <<plannerVars, nodeVars>>

\* NodeSE2::initMotionModel, case REEDS_SHEPP
MotionInitReedsShepp ==
  /\ \E n \in AngleQuantizations, r \in TurningRadii :
       /\ motion_table' = initReedsShepp(SizeX, n, r)
       /\ motion_call' = [NoMotionCall EXCEPT
                            !.op = "initReedsShepp", !.n = n, !.r = r,
                            !.found = Len(motion_table.projections)]
  /\ UNCHANGED <<plannerVars, nodeVars>>

\* NodeSE2::initMotionModel, case BALKCOM_MASON
MotionInitBalkcomMason ==
  /\ \E n \in AngleQuantizations, r \in TurningRadii :
       /\ motion_table' = initBalkcomMason(SizeX, n)
       /\ motion_call' = [NoMotionCall EXCEPT
                            !.op = "initBalkcomMason", !.n = n, !.r = r,
                            !.found = Len(motion_table.projections)]
  /\ UNCHANGED <<plannerVars, nodeVars>>

\* MotionTable::getProjections(node)
MotionGetProjections ==
  /\ \E pose \in ProjectionPoses :
       motion_call' = [motion_call EXCEPT !.projected = TRUE,
                                          !.pose = pose,
                                          !.ret = getProjections(pose)]
  /\ UNCHANGED motion_table
  /\ UNCHANGED <<plannerVars, nodeVars>>

MotionNext ==
  \/ MotionInitDubin
  \/ MotionInitReedsShepp
  \/ MotionInitBalkcomMason
  \/ MotionGetProjections

(***************************************************************************)
(* The costmap the facade reads: one row of SizeX cells, ten world units   *)
(* per cell, origin at 0.  Either every cell is FREE or the middle cell    *)
(* carries one of the non-free sentinels.                                  *)
(***************************************************************************)
MiddleCell == SizeX \div 2

CharMaps ==
  { [c \in 0..(SizeX - 1) |-> IF c = MiddleCell THEN v ELSE FREE] :
      v \in {FREE, INSCRIBED, OCCUPIED, UNKNOWN} }

Costmaps ==
  { [size_x |-> SizeX, size_y |-> 1, resolution |-> 10,
     origin_x |-> 0, origin_y |-> 0, charmap |-> m] : m \in CharMaps }

\* SmacPlanner::getWorldCoords: origin + (m + 0.5) * resolution
getWorldCoords(mx, my, cm) ==
  << cm.origin_x + ((2 * mx + 1) * cm.resolution) \div 2,
     cm.origin_y + ((2 * my + 1) * cm.resolution) \div 2 >>

\* Costmap2D::worldToMap as createPlan uses it (the result is not looked at):
\* the cell of a world position at or beyond the origin.
worldToMap(wx, wy, cm) ==
  << (wx - cm.origin_x) \div cm.resolution,
     (wy - cm.origin_y) \div cm.resolution >>

\* _angle_bin_size = 2 pi / angle_quantizations, in degrees
AngleBinSize(angle_quantizations) == 360 \div angle_quantizations

\* static_cast<unsigned int>(orientation / _angle_bin_size) where the
\* conversion is defined: the quotient truncated towards zero is not negative
OrientationBin(orientation, angle_bin_size) ==
  IF orientation >= 0 THEN orientation \div angle_bin_size ELSE 0

\* Stand-in for the unsigned int 2^32 - k, which the integers at hand cannot
\* hold: 2^31 - k, like it beyond every bin count.
WrappedUnsigned(k) == (INT_MAX - k) + 1

\* static_cast<unsigned int>(orientation / _angle_bin_size): what a build
\* can produce.  When the quotient truncates to -k, k >= 1, the conversion
\* is undefined: builds give 2^32 - k (conversion through a wider signed
\* integer) or 0 (saturating conversion).
OrientationBins(orientation, angle_bin_size) ==
  IF orientation > -angle_bin_size
  THEN {OrientationBin(orientation, angle_bin_size)}
  ELSE {0, WrappedUnsigned((-orientation) \div angle_bin_size)}

(***************************************************************************)
(* The A* engine, AStarAlgorithm<NodeSE2>.  Its source is not among the    *)
(* files at hand: it is modelled from the specification's section 4.E,     *)
(* over the SE(2) lattice of the one-row costmap with the two straight     *)
(* primitives, forward and backward by one cell.  Costs are in tenths.     *)
(* max_on_approach_iterations is INT_MAX (configure, line 104), so the     *)
(* on-approach counter never ends a search within the bounds.              *)
(***************************************************************************)
Unset == <<-1, -1, -1>>

\* (y * size_x + x) * N + bin
getIndex(x, y, bin, size_x, n) == (y * size_x + x) * n + bin

IndexX(idx, as) == (idx \div as.num_angles) % as.size_x
IndexY(idx, as) == (idx \div as.num_angles) \div as.size_x

\* The graph store: a node is materialised on its first lookup.
GraphNode(as, idx) ==
  IF idx \in DOMAIN as.graph
  THEN as.graph[idx]
  ELSE NewNodeSE2(as.costs[idx \div as.num_angles], idx)

InGrid(p, as) ==
  /\ p[1] >= 0 /\ p[1] < as.size_x
  /\ p[2] >= 0 /\ p[2] < as.size_y
  /\ p[3] >= 0 /\ p[3] < as.num_angles

PoseIndex(p, as) == getIndex(p[1], p[2], p[3], as.size_x, as.num_angles)

\* createPath fails loudly: start or goal unset, outside the grid or
\* non-traversable.
InputsInvalid(as) ==
  \/ as.start = Unset \/ as.goal = Unset
  \/ ~InGrid(as.start, as) \/ ~InGrid(as.goal, as)
  \/ ~isNodeValid(GraphNode(as, PoseIndex(as.start, as)), as.traverse_unknown)
  \/ ~isNodeValid(GraphNode(as, PoseIndex(as.goal, as)), as.traverse_unknown)

\* Euclidean distance to the goal, in tenths of a cell.
getHeuristicCost(x, y, as) ==
  ISqrt(100 * ((as.goal[1] - x) * (as.goal[1] - x)
               + (as.goal[2] - y) * (as.goal[2] - y)),
        10 * (as.size_x + as.size_y))

\* travel_cost_scale * cost(s) + (1 - travel_cost_scale) * distance(u, s)
TraversalCost(nb) == travel_cost_scale * nb.cell_cost + (10 - travel_cost_scale)

\* The entry the min-heap pops: least f, first inserted among equals.
PopIndex(queue) ==
  CHOOSE i \in 1..Len(queue) :
    \A j \in 1..Len(queue) :
      \/ queue[i].f < queue[j].f
      \/ queue[i].f = queue[j].f /\ i <= j

RemoveAt(s, i) == SubSeq(s, 1, i - 1) \o SubSeq(s, i + 1, Len(s))

\* The successors of a node: forward (+1 cell) and backward (-1 cell).
NeighborPosesOf(idx, as) ==
  LET x == IndexX(idx, as)
      y == IndexY(idx, as)
      b == idx % as.num_angles
  IN  << <<x + 1, y, b>>, <<x - 1, y, b>> >>

RECURSIVE ExpandNeighbors(_, _, _, _)
ExpandNeighbors(as, cur, nbs, k) ==
  IF k > Len(nbs) THEN as
  ELSE
    LET p == nbs[k]
    IN  IF ~InGrid(p, as)
        THEN ExpandNeighbors(as, cur, nbs, k + 1)
        ELSE
          LET idx == PoseIndex(p, as)
              nb == GraphNode(as, idx)
              g == GraphNode(as, cur).accumulated_cost + TraversalCost(nb)
          IN  IF isNodeValid(nb, as.traverse_unknown) /\ ~nb.was_visited
                 /\ g < nb.accumulated_cost
              THEN
                LET nb2 == [nb EXCEPT !.accumulated_cost = g, !.parent = cur,
                                      !.is_queued = TRUE, !.pose = p]
                    as2 == [as EXCEPT
                              !.graph = (idx :> nb2) @@ as.graph,
                              !.queue = Append(as.queue,
                                [f |-> g + getHeuristicCost(p[1], p[2], as),
                                 idx |-> idx])]
                IN  ExpandNeighbors(as2, cur, nbs, k + 1)
              ELSE ExpandNeighbors(as, cur, nbs, k + 1)

\* Walk the parent pointers from the goal back to the start: the index path
\* holds the goal's cell first and the start's cell last.
RECURSIVE backtracePath(_, _)
backtracePath(as, idx) ==
  LET n == GraphNode(as, idx)
  IN  << <<IndexX(idx, as), IndexY(idx, as)>> >>
      \o (IF n.parent = NoParent THEN <<>> ELSE backtracePath(as, n.parent))

\* The motion model of an engine that has not been constructed (_a_star is
\* a null pointer until configure makes one).
NotConstructed == "none"

\* AStarAlgorithm(motion_model, min_turning_radius) + initialize: the engine
\* before any graph is created
NewAStar(motion_model, allow_unknown, max_iterations) ==
  [ motion_model |-> motion_model,
    traverse_unknown |-> allow_unknown,
    max_iterations |-> max_iterations,
    size_x |-> 0, size_y |-> 0, num_angles |-> 0,
    costs |-> <<>>, graph |-> <<>>, queue |-> <<>>,
    start |-> Unset, goal |-> Unset,
    result |-> "none", stopped |-> "none" ]

\* NodeSE2::initMotionModel: the models its switch has a case for; every
\* other one runs into the default branch, which throws std::runtime_error.
initMotionModelThrows(motion_model) ==
  motion_model \notin {"DUBIN", "REEDS_SHEPP", "BALKCOM_MASON"}

\* NodeSE2::initMotionModel for the models it has a case for
initMotionModel(motion_model, size_x, num_angle_quantization, min_turning_radius) ==
  CASE motion_model = "DUBIN" ->
         initDubin(size_x, num_angle_quantization, min_turning_radius)
    [] motion_model = "REEDS_SHEPP" ->
         initReedsShepp(size_x, num_angle_quantization, min_turning_radius)
    [] motion_model = "BALKCOM_MASON" ->
         initBalkcomMason(size_x, num_angle_quantization)

\* createGraph(size_x, size_y, angle_quantizations, char_costmap)
createGraph(as, size_x, size_y, n, charmap) ==
  [ as EXCEPT !.size_x = size_x, !.size_y = size_y, !.num_angles = n,
              !.costs = charmap, !.graph = <<>>, !.queue = <<>>,
              !.start = Unset, !.goal = Unset,
              !.result = "none", !.stopped = "none" ]

(***************************************************************************)
(* Smoother and Upsampler.  Their sources are not among the files at hand: *)
(* they are modelled from the specification's sections 4.F and 4.G.  What  *)
(* the solver does to a free waypoint is a choice among a few offsets.     *)
(***************************************************************************)
\* Offsets the optimiser may give the interior waypoints (world units).
SmoothOffsets == { <<0, 0>>, <<0, 2>> }

\* Smoother::smooth succeeding: the endpoints are fixed, the interior moves.
SmoothedPaths(p) ==
  { [i \in 1..Len(p) |->
       IF i = 1 \/ i = Len(p) THEN p[i]
       ELSE <<p[i][1] + d[1], p[i][2] + d[2]>>] : d \in SmoothOffsets }

\* k - 1 waypoints inserted between each adjacent pair, by linear
\* interpolation: k * (n - 1) + 1 waypoints.
Interpolated(p, k) ==
  [i \in 1..(k * (Len(p) - 1) + 1) |->
     LET seg == (i - 1) \div k + 1
         j == (i - 1) % k
     IN  IF j = 0 THEN p[seg]
         ELSE << p[seg][1] + ((p[seg + 1][1] - p[seg][1]) * j) \div k,
                 p[seg][2] + ((p[seg + 1][2] - p[seg][2]) * j) \div k >>]

\* Upsampler::upsample succeeding.
UpsampledPaths(p, k) == { Interpolated(p, k) }

\* Upsampler::upsample failing: the waypoints are inserted before the solver
\* runs, so the buffer it was handed by reference is either still as given
\* or already holds the inserted waypoints.
UpsampleFailedBuffers(p, k) == { p, Interpolated(p, k) }

\* squaredDistance(a, b)
squaredDistance(a, b) ==
  (a[1] - b[1]) * (a[1] - b[1]) + (a[2] - b[2]) * (a[2] - b[2])

\* removeHook pulling the second-to-last point halfway to the last one.
removeHookTowardsLast(p) ==
  LET n == Len(p)
      halfway == << (p[n - 1][1] + p[n][1]) \div 2,
                    (p[n - 1][2] + p[n][2]) \div 2 >>
  IN  IF squaredDistance(p[n - 1], p[n]) > squaredDistance(halfway, p[n])
      THEN [p EXCEPT ![n - 1] = halfway]
      ELSE p

\* SmacPlanner::removeHook
removeHook(p) ==
  LET n == Len(p)
      interpolated_second_to_last_point ==
        << (p[n - 2][1] + p[n][1]) \div 2, (p[n - 2][2] + p[n][2]) \div 2 >>
  IN  IF squaredDistance(p[n - 1], p[n])
           > squaredDistance(interpolated_second_to_last_point, p[n])
      THEN [p EXCEPT ![n - 1] = interpolated_second_to_last_point]
      ELSE p

(***************************************************************************)
(* SmacPlanner::configure                                                  *)
(***************************************************************************)
\* (smooth_path, upsample_path, smoother.upsampling_ratio) as configured.
PostProcessingParams ==
  { <<FALSE, FALSE, 2>>, <<FALSE, TRUE, 2>>, <<TRUE, FALSE, 2>>,
    <<TRUE, TRUE, 2>>, <<TRUE, TRUE, 3>>, <<TRUE, TRUE, 4>> }

\* angle_quantization_bins as configured.
FacadeAngleQuantizations == {1, 4}

\* max_iterations as configured (-1 is the default: unlimited).
MaxIterationsParams == {-1, 0, SmallBudget}

\* motion_model_for_search as configured: a model of the SE(2) node, the
\* default (a 2D model), and a string that names no model.
MotionModelStrings == {"DUBIN", "MOORE", "HOVERCRAFT"}

\* fromString: the model a string names, UNKNOWN when it names none
fromString(n) ==
  IF n \in {"MOORE", "VON_NEUMANN", "DUBIN", "REEDS_SHEPP", "BALKCOM_MASON"}
  THEN n ELSE "UNKNOWN"

\* minimum_turning_radius as configured, in world units.
MinimumTurningRadii == {10}

\* line 186: the turning radius in hundredths of a cell (downsampling
\* factor 1)
GridCoordMinTurningRad(minimum_turning_radius, cm) ==
  (100 * minimum_turning_radius) \div cm.resolution

\* lines 169-173: a budget <= 0 disables the limit
EffectiveMaxIterations(max_iterations) ==
  IF max_iterations <= 0 THEN INT_MAX ELSE max_iterations

\* lines 180-184: only 2 and 4 are valid ratios
EffectiveUpsamplingRatio(ratio) ==
  IF ratio # 2 /\ ratio # 4 THEN 2 ELSE ratio

Configure ==
  /\ pc = "unconfigured"
  /\ \E pp \in PostProcessingParams, n \in FacadeAngleQuantizations,
        mi \in MaxIterationsParams, allow_unknown \in BOOLEAN,
        motion_model_for_search \in MotionModelStrings,
        minimum_turning_radius \in MinimumTurningRadii :
       LET ratio == EffectiveUpsamplingRatio(pp[3])
           \* lines 155-161: an UNKNOWN model is logged, nothing else
           motion_model == fromString(motion_model_for_search)
       IN  /\ cfg' = [ angle_quantizations |-> n,
                       angle_bin_size |-> AngleBinSize(n),
                       upsampling_ratio |-> ratio,
                       smoother |-> pp[1],
                       upsampler |-> pp[1] /\ pp[2] /\ ratio > 0,
                       motion_model_for_search |-> motion_model_for_search,
                       min_turning_radius |->
                         GridCoordMinTurningRad(minimum_turning_radius,
                                                costmap) ]
           /\ a_star' = NewAStar(motion_model, allow_unknown,
                                 EffectiveMaxIterations(mi))
  /\ pc' = "idle"
  /\ UNCHANGED <<costmap, mutex, req, path, num_iterations, error,
                 path_world, plan, trace>>
  /\ UNCHANGED <<nodeVars, motionVars>>

(***************************************************************************)
(* SmacPlanner::createPlan, statement by statement.                        *)
(***************************************************************************)
\* Yaws of the start and of the goal pose, in degrees.
YawPairs == { <<0, 0>>, <<0, 180>>, <<180, 0>>, <<-90, 0>> }

\* Cells the start pose lies in: the first, the middle one, and one past the
\* last cell of the row (outside the costmap).
StartCells == {0, MiddleCell, SizeX}

\* Cells the goal pose lies in: every cell, and one past the last.
GoalCells == 0..SizeX

NoTrace ==
  [ calls |-> <<>>, smoother_in |-> <<>>, smoothed |-> <<>>,
    upsampler_in |-> <<>>, smooth_ok |-> "none", upsample_ok |-> "none",
    returned_at |-> "none" ]

\* line 294: the yaw the goal's heading bin is computed from
GoalOrientationSource(r) == r.start[3]

\* lines 313-326: the error createPlan reports for createPath's outcome
\* createPathError comparing with <= instead of <.
createPathErrorInclusive(result, iterations, max_iterations) ==
  IF result = "throw" THEN "invalid use"
  ELSE IF result = "false"
       THEN IF iterations <= max_iterations
            THEN "no valid path found"
            ELSE "exceeded maximum iterations"
       ELSE ""

createPathError(result, iterations, max_iterations) ==
  IF result = "throw" THEN "invalid use"
  ELSE IF result = "false"
       THEN IF iterations < max_iterations
            THEN "no valid path found"
            ELSE "exceeded maximum iterations"
       ELSE ""

\* ReturnsOnError with the test inverted.
ReturnsOnSuccess(err) == err = ""

\* line 328: if (!error.empty()) return plan;
ReturnsOnError(err) == err # ""

\* lines 343-352: the cells of the index path from its last entry to its
\* first, every entry whose (0-based) index is no multiple of 4 skipped when
\* a smoother is configured.
KeptCells(p, smoother) ==
  LET reversed == [j \in 1..Len(p) |-> Len(p) - j]
      kept == SelectSeq(reversed,
                LAMBDA i : ~(smoother /\ i % downsample_ratio # 0))
  IN  [j \in 1..Len(kept) |-> p[kept[j] + 1]]

\* TooSmall letting a list of three waypoints through.
TooSmallBelowThree(path_world_size) == path_world_size < 3

\* line 370: if (path_world.size() < 4) return plan;
TooSmall(path_world_size) == path_world_size < 4

\* AfterSmooth without the return on failure.
AfterSmoothFallsThrough(ok) == "removeHook"

\* lines 378-384: a failed smoother ends the plan
AfterSmooth(ok) == IF ok THEN "removeHook" ELSE "return"

\* StepAfter with hook removal moved behind the upsampler.
StepAfterHookLast(step) ==
  CASE step = "smooth" -> "publish"
    [] step = "publish" -> "upsample"
    [] step = "upsample" -> "removeHook"
    [] step = "removeHook" -> "copy"

\* lines 374-417: the order of the post-processing steps
StepAfter(step) ==
  CASE step = "smooth" -> "removeHook"
    [] step = "removeHook" -> "publish"
    [] step = "publish" -> "upsample"
    [] step = "upsample" -> "copy"

\* Return leaving the costmap's mutex locked.
ReturnHoldingLock(site) ==
  /\ pc' = "done"
  /\ mutex' = mutex
  /\ trace' = [trace EXCEPT !.returned_at = site]

Return(site) ==
  /\ pc' = "done"
  /\ mutex' = "free"
  /\ trace' = [trace EXCEPT !.returned_at = site]

\* line 270: std::unique_lock lock(*(_costmap->getMutex()))
CreatePlanLock ==
  /\ pc = "idle"
  /\ mutex = "free"
  /\ \E s \in StartCells, g \in GoalCells, yaws \in YawPairs :
       req' = [ start |-> getWorldCoords(s, 0, costmap) \o <<yaws[1]>>,
                goal |-> getWorldCoords(g, 0, costmap) \o <<yaws[2]>> ]
  /\ mutex' = "createPlan"
  /\ pc' = "setup"
  /\ UNCHANGED <<cfg, costmap, a_star, path, num_iterations, error,
                 path_world, plan, trace>>
  /\ UNCHANGED <<nodeVars, motionVars>>

\* lines 272-311: createGraph, setStart, setGoal, the empty plan.  The
\* motion table is built for the graph; when initMotionModel throws, nothing
\* in createPlan catches it (its try block is lines 313-326): the exception
\* leaves createPlan, and the lock is released as the stack unwinds.
CreatePlanSetup ==
  /\ pc = "setup"
  /\ plan' = <<>>
  /\ path' = <<>>
  /\ path_world' = <<>>
  /\ num_iterations' = 0
  /\ error' = ""
  /\ IF initMotionModelThrows(a_star.motion_model)
     THEN /\ pc' = "done"
          /\ mutex' = "free"
          /\ trace' = [NoTrace EXCEPT !.returned_at = "exception"]
          /\ UNCHANGED <<a_star, motionVars>>
     ELSE
       /\ LET s == worldToMap(req.start[1], req.start[2], costmap)
              g == worldToMap(req.goal[1], req.goal[2], costmap)
              graph == createGraph(a_star, costmap.size_x, costmap.size_y,
                                   cfg.angle_quantizations, costmap.charmap)
          IN  \E sb \in OrientationBins(req.start[3], cfg.angle_bin_size),
                 gb \in OrientationBins(GoalOrientationSource(req),
                                        cfg.angle_bin_size) :
                a_star' = [ graph EXCEPT !.start = <<s[1], s[2], sb>>,
                                         !.goal = <<g[1], g[2], gb>> ]
       /\ motion_table' = initMotionModel(a_star.motion_model,
                            costmap.size_x, cfg.angle_quantizations,
                            cfg.min_turning_radius)
       /\ motion_call' = [NoMotionCall EXCEPT
                            !.op = "initMotionModel",
                            !.n = cfg.angle_quantizations,
                            !.r = cfg.min_turning_radius,
                            !.found = Len(motion_table.projections)]
       /\ trace' = NoTrace
       /\ pc' = "createPath"
       /\ mutex' = mutex
  /\ UNCHANGED <<cfg, costmap, req>>
  /\ UNCHANGED nodeVars

\* createPath, before its loop: the inputs are checked, the start is queued
CreatePathBegin ==
  /\ pc = "createPath"
  /\ IF InputsInvalid(a_star)
     THEN /\ a_star' = [a_star EXCEPT !.result = "throw"]
          /\ pc' = "searched"
     ELSE LET idx == PoseIndex(a_star.start, a_star)
              n == [GraphNode(a_star, idx) EXCEPT
                      !.accumulated_cost = 0, !.is_queued = TRUE,
                      !.pose = a_star.start]
          IN  /\ a_star' = [a_star EXCEPT
                              !.graph = (idx :> n) @@ a_star.graph,
                              !.queue = << [f |-> 0, idx |-> idx] >>]
              /\ pc' = "search"
  /\ UNCHANGED <<cfg, costmap, mutex, req, path, num_iterations, error,
                 path_world, plan, trace>>
  /\ UNCHANGED <<nodeVars, motionVars>>

\* createPath, one turn of its loop: pop, count, test for the goal, expand
AStarIterate ==
  /\ pc = "search"
  /\ num_iterations < a_star.max_iterations
  /\ a_star.queue # <<>>
  /\ num_iterations' = num_iterations + 1
  /\ LET i == PopIndex(a_star.queue)
         cur == a_star.queue[i].idx
         n == GraphNode(a_star, cur)
         popped == [a_star EXCEPT !.queue = RemoveAt(a_star.queue, i)]
     IN  IF n.was_visited
         THEN /\ a_star' = popped
              /\ UNCHANGED <<path, pc>>
         ELSE
           LET seen == [popped EXCEPT
                          !.graph = (cur :> [n EXCEPT !.was_visited = TRUE,
                                                      !.is_queued = FALSE])
                                    @@ popped.graph]
           IN  IF cur = PoseIndex(a_star.goal, a_star)
               THEN /\ path' = backtracePath(seen, cur)
                    /\ a_star' = [seen EXCEPT !.result = "true",
                                              !.stopped = "goal"]
                    /\ pc' = "searched"
               ELSE /\ a_star' = ExpandNeighbors(seen, cur,
                                   NeighborPosesOf(cur, seen), 1)
                    /\ UNCHANGED <<path, pc>>
  /\ UNCHANGED <<cfg, costmap, mutex, req, error, path_world, plan, trace>>
  /\ UNCHANGED <<nodeVars, motionVars>>

\* createPath, its loop ending without the goal: the budget is used up, or
\* it is not and the open set is empty
AStarStop ==
  /\ pc = "search"
  /\ ~(num_iterations < a_star.max_iterations /\ a_star.queue # <<>>)
  /\ a_star' = [a_star EXCEPT
                  !.result = "false",
                  !.stopped = IF num_iterations < a_star.max_iterations
                              THEN "open set empty"
                              ELSE "budget exhausted"]
  /\ pc' = "searched"
  /\ UNCHANGED <<cfg, costmap, mutex, req, path, num_iterations, error,
                 path_world, plan, trace>>
  /\ UNCHANGED <<nodeVars, motionVars>>

\* lines 313-334: the try block's outcome, and the return on an error
CreatePlanCheck ==
  /\ pc = "searched"
  /\ LET err == createPathError(a_star.result, num_iterations,
                                a_star.max_iterations)
     IN  /\ error' = err
         /\ IF ReturnsOnError(err)
            THEN Return("a_star failed")
            ELSE /\ pc' = "convert"
                 /\ UNCHANGED <<mutex, trace>>
  /\ UNCHANGED <<cfg, costmap, req, a_star, path, num_iterations,
                 path_world, plan>>
  /\ UNCHANGED <<nodeVars, motionVars>>

\* lines 336-372: the world coordinates of the kept cells; the returns when
\* no smoother is configured and when fewer than 4 waypoints are left
CreatePlanConvert ==
  /\ pc = "convert"
  /\ LET cells == KeptCells(path, cfg.smoother)
         world == [j \in 1..Len(cells) |->
                     getWorldCoords(cells[j][1], cells[j][2], costmap)]
     IN  /\ path_world' = world
         /\ plan' = world
         /\ IF ~cfg.smoother
            THEN Return("no smoother")
            ELSE IF TooSmall(Len(world))
                 THEN Return("too short")
                 ELSE /\ pc' = "smooth"
                      /\ UNCHANGED <<mutex, trace>>
  /\ UNCHANGED <<cfg, costmap, req, a_star, path, num_iterations, error>>
  /\ UNCHANGED <<nodeVars, motionVars>>

\* lines 374-384: _smoother->smooth(path_world, ...)
CreatePlanSmooth ==
  /\ pc = "smooth"
  /\ \/ \E smoothed \in SmoothedPaths(path_world) :
          /\ path_world' = smoothed
          /\ pc' = AfterSmooth(TRUE)
          /\ mutex' = mutex
          /\ trace' = [trace EXCEPT !.calls = Append(@, "smooth"),
                                    !.smoother_in = path_world,
                                    !.smoothed = smoothed,
                                    !.smooth_ok = "true"]
     \/ /\ path_world' = path_world
        /\ LET t == [trace EXCEPT !.calls = Append(@, "smooth"),
                                  !.smoother_in = path_world,
                                  !.smooth_ok = "false"]
           IN  IF AfterSmooth(FALSE) = "return"
               THEN /\ pc' = "done"
                    /\ mutex' = "free"
                    /\ trace' = [t EXCEPT !.returned_at = "smoother failed"]
               ELSE /\ pc' = AfterSmooth(FALSE)
                    /\ mutex' = mutex
                    /\ trace' = t
  /\ UNCHANGED <<cfg, costmap, req, a_star, path, num_iterations, error, plan>>
  /\ UNCHANGED <<nodeVars, motionVars>>

\* line 386: removeHook(path_world)
CreatePlanRemoveHook ==
  /\ pc = "removeHook"
  /\ path_world' = removeHook(path_world)
  /\ trace' = [trace EXCEPT !.calls = Append(@, "removeHook"),
                            !.smoothed = IF trace.upsample_ok = "none"
                                         THEN path_world' ELSE @]
  /\ pc' = StepAfter("removeHook")
  /\ UNCHANGED <<cfg, costmap, mutex, req, a_star, path, num_iterations,
                 error, plan>>
  /\ UNCHANGED <<nodeVars, motionVars>>

\* lines 388-396: with a subscriber, the smoothed waypoints are written into
\* the plan and published
CreatePlanPublish ==
  /\ pc = "publish"
  /\ \E subscribers \in BOOLEAN :
       plan' = IF subscribers
               THEN [i \in 1..Len(plan) |->
                       IF i <= Len(path_world) THEN path_world[i] ELSE plan[i]]
               ELSE plan
  /\ pc' = StepAfter("publish")
  /\ UNCHANGED <<cfg, costmap, mutex, req, a_star, path, num_iterations,
                 error, path_world, trace>>
  /\ UNCHANGED <<nodeVars, motionVars>>

\* lines 398-409: _upsampler->upsample(path_world, ..., _upsampling_ratio);
\* the plan is resized only when it succeeds
CreatePlanUpsample ==
  /\ pc = "upsample"
  /\ IF ~cfg.upsampler
     THEN UNCHANGED <<path_world, plan, trace>>
     ELSE
       \/ \E up \in UpsampledPaths(path_world, cfg.upsampling_ratio) :
            /\ path_world' = up
            /\ plan' = [i \in 1..Len(up) |->
                          IF i <= Len(plan) THEN plan[i] ELSE <<0, 0>>]
            /\ trace' = [trace EXCEPT !.calls = Append(@, "upsample"),
                                      !.upsampler_in = path_world,
                                      !.upsample_ok = "true"]
       \/ \E left \in UpsampleFailedBuffers(path_world, cfg.upsampling_ratio) :
            /\ path_world' = left
            /\ plan' = plan
            /\ trace' = [trace EXCEPT !.calls = Append(@, "upsample"),
                                      !.upsampler_in = path_world,
                                      !.upsample_ok = "false"]
  /\ pc' = StepAfter("upsample")
  /\ UNCHANGED <<cfg, costmap, mutex, req, a_star, path, num_iterations, error>>
  /\ UNCHANGED <<nodeVars, motionVars>>

\* lines 411-417: every pose of the plan takes the waypoint of its index
CreatePlanCopy ==
  /\ pc = "copy"
  /\ plan' = [i \in 1..Len(plan) |-> path_world[i]]
  /\ Return("end")
  /\ UNCHANGED <<cfg, costmap, req, a_star, path, num_iterations, error,
                 path_world>>
  /\ UNCHANGED <<nodeVars, motionVars>>

(***************************************************************************)
(* A writer of the costmap (the costmap's update thread), which takes the  *)
(* costmap's mutex for each write and marks or clears the middle cell.     *)
(***************************************************************************)
CostmapWriterLock ==
  /\ mutex = "free"
  /\ mutex' = "writer"
  /\ UNCHANGED <<pc, cfg, costmap, req, a_star, path, num_iterations, error,
                 path_world, plan, trace>>
  /\ UNCHANGED <<nodeVars, motionVars>>

CostmapWriterWrite ==
  /\ mutex = "writer"
  /\ \E m \in CharMaps :
       /\ m # costmap.charmap
       /\ costmap' = [costmap EXCEPT !.charmap = m]
  /\ mutex' = "free"
  /\ UNCHANGED <<pc, cfg, req, a_star, path, num_iterations, error,
                 path_world, plan, trace>>
  /\ UNCHANGED <<nodeVars, motionVars>>

(***************************************************************************)
(* The specifications.                                                     *)
(***************************************************************************)
\* The members a default-constructed planner and its callers start with.
PlannerInit ==
  /\ pc = "unconfigured"
  /\ cfg = [ angle_quantizations |-> 1, angle_bin_size |-> 360,
             upsampling_ratio |-> 2, smoother |-> FALSE, upsampler |-> FALSE,
             motion_model_for_search |-> "", min_turning_radius |-> 0 ]
  /\ costmap \in Costmaps
  /\ mutex = "free"
  /\ req = [start |-> <<0, 0, 0>>, goal |-> <<0, 0, 0>>]
  /\ a_star = NewAStar(NotConstructed, TRUE, INT_MAX)
  /\ path = <<>>
  /\ num_iterations = 0
  /\ error = ""
  /\ path_world = <<>>
  /\ plan = <<>>
  /\ trace = NoTrace

\* The planner idle, for the specifications of the node and of the table.
PlannerIdle ==
  /\ PlannerInit
  /\ costmap.charmap[MiddleCell] = FREE

NodeIdle ==
  /\ node = NewNodeSE2(FREE, 0)
  /\ node_call = [op |-> "construct", arg |-> FALSE, ret |-> FALSE,
                        before |-> FALSE]

\* Waypoints with even coordinates up to 2 * MaxCoord: the midpoint of two
\* of them is a whole number, as (a + b) / 2.0 is exact in the code.
HookPoints == { <<2 * x, 2 * y>> : x \in 0..MaxCoord, y \in 0..MaxCoord }

\* The waypoint lists removeHook is given: every list of three waypoints,
\* and each of them behind a waypoint further up the path.
HookPaths ==
  { <<a, b, c>> : a \in HookPoints, b \in HookPoints, c \in HookPoints }
  \cup { << <<0, 0>>, a, b, c >> :
           a \in HookPoints, b \in HookPoints, c \in HookPoints }

\* A planner holding a waypoint list, for the specification of removeHook.
\* The history keeps the list as given (smoother_in) and as the first
\* application left it (smoothed).
HookInit ==
  /\ pc = "unconfigured"
  /\ cfg = [ angle_quantizations |-> 1, angle_bin_size |-> 360,
             upsampling_ratio |-> 2, smoother |-> FALSE, upsampler |-> FALSE,
             motion_model_for_search |-> "", min_turning_radius |-> 0 ]
  /\ costmap \in Costmaps
  /\ costmap.charmap[MiddleCell] = FREE
  /\ mutex = "free"
  /\ req = [start |-> <<0, 0, 0>>, goal |-> <<0, 0, 0>>]
  /\ a_star = NewAStar(NotConstructed, TRUE, INT_MAX)
  /\ path = <<>>
  /\ num_iterations = 0
  /\ error = ""
  /\ path_world \in HookPaths
  /\ plan = <<>>
  /\ trace = [NoTrace EXCEPT !.smoother_in = path_world]

\* removeHook(path_world), at most twice in a row
HookRemoveHook ==
  /\ Len(trace.calls) < 2
  /\ path_world' = removeHook(path_world)
  /\ trace' = [trace EXCEPT !.calls = Append(@, "removeHook"),
                            !.smoothed = IF trace.calls = <<>>
                                         THEN path_world' ELSE @]
  /\ UNCHANGED <<pc, cfg, costmap, mutex, req, a_star, path, num_iterations,
                 error, plan>>
  /\ UNCHANGED <<nodeVars, motionVars>>

Init == PlannerInit /\ NodeIdle /\ MotionInit

InitHook == HookInit /\ NodeIdle /\ MotionInit

InitNode == PlannerIdle /\ NodeInit /\ MotionInit

InitMotion == PlannerIdle /\ NodeIdle /\ MotionInit

Next ==
  \/ Configure
  \/ CreatePlanLock
  \/ CreatePlanSetup
  \/ CreatePathBegin
  \/ AStarIterate
  \/ AStarStop
  \/ CreatePlanCheck
  \/ CreatePlanConvert
  \/ CreatePlanSmooth
  \/ CreatePlanRemoveHook
  \/ CreatePlanPublish
  \/ CreatePlanUpsample
  \/ CreatePlanCopy
  \/ CostmapWriterLock
  \/ CostmapWriterWrite

Spec == Init /\ [][Next]_vars

SpecNode == InitNode /\ [][NodeNext]_vars

SpecMotion == InitMotion /\ [][MotionNext]_vars

SpecHook == InitHook /\ [][HookRemoveHook]_vars

(***************************************************************************)
(* The claims.                                                             *)
(***************************************************************************)
Returned == pc = "done"

SearchFailed == a_star.result \in {"false", "throw"}

\* C1: whenever the search fails (createPath returns false or raises a
\* runtime error), createPlan returns a plan with no pose, through the
\* return that follows the error, and neither the smoother, hook removal
\* nor the upsampler has run.
C1_FailedSearchReturnsEmptyPlan ==
  (Returned /\ SearchFailed) =>
    /\ plan = <<>>
    /\ path_world = <<>>
    /\ trace.calls = <<>>
    /\ trace.returned_at = "a_star failed"

\* A plan has returned after createPath raised its runtime error.
C1_Witness ==
  /\ Returned
  /\ a_star.result = "throw"
  /\ error = "invalid use"
  /\ plan = <<>>

\* C2: when createPath returns false, the warning is "exceeded maximum
\* iterations" exactly when the loop stopped with the budget used up, and
\* "no valid path found" exactly when the open set emptied before that, for
\* a finite budget and for the unlimited one alike.
C2_WarningTellsWhyTheSearchStopped ==
  (Returned /\ a_star.result = "false") =>
    /\ (error = "exceeded maximum iterations")
         <=> (a_star.stopped = "budget exhausted")
    /\ (error = "no valid path found")
         <=> (a_star.stopped = "open set empty")
    /\ (a_star.stopped = "budget exhausted")
         <=> (num_iterations = a_star.max_iterations)
    /\ (a_star.stopped = "open set empty")
         <=> (a_star.queue = <<>> /\ num_iterations < a_star.max_iterations)

\* A search has used up a finite budget with nodes still in the open set.
C2_Witness ==
  /\ Returned
  /\ a_star.result = "false"
  /\ a_star.max_iterations = SmallBudget
  /\ num_iterations = SmallBudget
  /\ a_star.queue # <<>>
  /\ error = "exceeded maximum iterations"

\* C3: if the search succeeds and the smoother fails, the returned waypoints
\* are the world coordinates of the cells handed to the smoother (every
\* fourth cell of the index path, from its last entry down to its first),
\* in that order, and neither hook removal nor the upsampler has run.
C3_SmootherFailureReturnsUnsmoothedPath ==
  (Returned /\ a_star.result = "true" /\ trace.smooth_ok = "false") =>
    /\ plan = trace.smoother_in
    /\ \A j \in 1..Len(plan) :
         LET cell == path[downsample_ratio * (Len(plan) - j) + 1]
         IN  plan[j] = getWorldCoords(cell[1], cell[2], costmap)
    /\ Len(plan) = (Len(path) - 1) \div downsample_ratio + 1
    /\ trace.calls = <<"smooth">>
    /\ trace.returned_at = "smoother failed"

\* A plan has returned its four unsmoothed waypoints after the smoother
\* failed.
C3_Witness ==
  /\ Returned
  /\ a_star.result = "true"
  /\ trace.smooth_ok = "false"
  /\ Len(plan) >= 4

\* C4 (as claimed): if the smoother succeeds and the upsampler fails, the
\* returned path is the smoothed path, waypoint for waypoint, whatever the
\* upsampler did to the buffer before failing.
C4_UpsamplerFailureReturnsSmoothedPath ==
  (Returned /\ trace.smooth_ok = "true" /\ trace.upsample_ok = "false") =>
    /\ Len(plan) = Len(trace.smoothed)
    /\ \A i \in 1..Len(plan) : plan[i] = trace.smoothed[i]

\* C5 (as claimed): every successful plan starts at the centre of the
\* start's cell and ends at the centre of the goal's cell.
C5_PlanRunsFromStartToGoal ==
  (Returned /\ a_star.result = "true") =>
    /\ plan # <<>>
    /\ plan[1] = getWorldCoords(a_star.start[1], a_star.start[2], costmap)
    /\ Last(plan) = getWorldCoords(a_star.goal[1], a_star.goal[2], costmap)

\* C6 (as claimed): the heading bin given to setGoal is the bin of the goal
\* pose's yaw.
C6_GoalBinIsTheGoalYawsBin ==
  (pc \notin {"unconfigured", "idle", "setup"} /\ a_star.goal # Unset) =>
    a_star.goal[3] \in OrientationBins(req.goal[3], cfg.angle_bin_size)

AllPostProcessingRan ==
  /\ Returned
  /\ cfg.upsampler
  /\ trace.returned_at = "end"

\* C7 (as claimed): on a successful plan with smoother and upsampler, the
\* steps run in the order smoother, upsampler, hook removal.
C7_HookRemovalRunsLast ==
  AllPostProcessingRan => trace.calls = <<"smooth", "upsample", "removeHook">>

\* C7 (amended): on a successful plan with smoother and upsampler, the steps
\* run in the order smoother, hook removal, upsampler: hook removal is
\* applied to the smoothed waypoints before they are upsampled.
C7_HookRemovalRunsBeforeUpsampling ==
  AllPostProcessingRan =>
    /\ trace.calls = <<"smooth", "removeHook", "upsample">>
    /\ trace.upsampler_in = removeHook(trace.upsampler_in)

\* A plan has returned its upsampled waypoints.
C7_Witness ==
  /\ AllPostProcessingRan
  /\ trace.upsample_ok = "true"
  /\ Len(plan) = cfg.upsampling_ratio * (Len(trace.smoothed) - 1) + 1

\* C8: for every 8-bit cost and both values of traverse_unknown, isNodeValid
\* returns true exactly when the cost is below INSCRIBED, or is UNKNOWN with
\* traverse_unknown set; and the node is as it was before the call.
C8_IsNodeValidByCost ==
  (node_call.op = "isNodeValid") =>
    /\ node_call.ret
         <=> \/ node.cell_cost < INSCRIBED
             \/ node.cell_cost = UNKNOWN /\ node_call.arg
    /\ node = node_call.before

\* isNodeValid has refused an INSCRIBED node although unknown cells may be
\* traversed.
C8_Witness ==
  /\ node_call.op = "isNodeValid"
  /\ node.cell_cost = INSCRIBED
  /\ node_call.arg
  /\ ~node_call.ret

\* C9 (as claimed): after reset(cost, index) every field of the node, the
\* pose included, is that of a freshly constructed node.
C9_ResetRestoresAFreshNode ==
  (node_call.op = "reset") =>
    node = NewNodeSE2(node_call.arg[1], node_call.arg[2])

\* The cell a primitive lands in from the centre of cell (3, 2).
LandingCell(i) ==
  LET q == getProjection(CellCentre(3, 2, 0), i)
  IN  <<CellOf(q[1]), CellOf(q[2])>>

LeavesCell(i) == LandingCell(i) # <<3, 2>>

TurnsOnTheSpot(i) ==
  \/ motion_call.op = "initBalkcomMason" /\ i \in {3, 4}
  \/ /\ motion_call.op \in {"initDubin", "initReedsShepp"}
     /\ motion_call.n = 1
     /\ i \in {2, 3, 5, 6}

C11_UnknownMotionModelIsRefused ==
  (fromString(cfg.motion_model_for_search) = "UNKNOWN") =>
    /\ pc = "unconfigured"
    /\ a_star.motion_model = NotConstructed
    /\ a_star.result = "none"

\* C12: removeHook is idempotent: for every waypoint list of at least three
\* points, applying it a second time leaves the list as the first
\* application left it.
C12_RemoveHookIsIdempotent ==
  (Len(trace.calls) = 2) => path_world = trace.smoothed

\* removeHook has been applied twice to a list of four waypoints whose
\* second-to-last point the first application replaced by the midpoint.
C12_Witness ==
  /\ trace.calls = <<"removeHook", "removeHook">>
  /\ Len(path_world) = 4
  /\ trace.smoothed # trace.smoother_in
  /\ trace.smoothed[3] = << (trace.smoother_in[2][1] + trace.smoother_in[4][1]) \div 2,
                            (trace.smoother_in[2][2] + trace.smoother_in[4][2]) \div 2 >>

\* The positions of createPlan between taking the lock and returning.
InCreatePlan ==
  pc \in {"setup", "createPath", "search", "searched", "convert", "smooth",
          "removeHook", "publish", "upsample", "copy"}

\* C13: from its first read of the costmap until it returns, createPlan
\* holds the costmap's mutex, so no writer that takes the mutex changes the
\* costmap in between: the cell costs the graph was created from are still
\* the costmap's; and when createPlan has ended, through whichever exit, it
\* no longer holds the mutex.
C13_MutexHeldThroughCreatePlan ==
  /\ InCreatePlan => mutex = "createPlan"
  /\ (InCreatePlan /\ pc # "setup") => a_star.costs = costmap.charmap
  /\ Returned =>
       /\ mutex # "createPlan"
       /\ trace.returned_at \in {"exception", "a_star failed", "no smoother",
                                 "too short", "smoother failed", "end"}

\* A plan has run to its normal end, and a writer has changed the costmap
\* only afterwards.
C13_Witness ==
  /\ Returned
  /\ trace.returned_at = "end"
  /\ mutex = "free"
  /\ a_star.costs # costmap.charmap

\* The three primitives of Dubin for the arguments of the last initialiser:
\* forward, left, right.
DubinThree ==
  LET angle == TurnAngle(motion_call.n, motion_call.r)
      delta_x == DeltaX(motion_call.r, angle)
      delta_y == DeltaY(motion_call.r, angle)
  IN  << <<sqrt_2, 0, 0>>, <<delta_x, delta_y, angle>>,
         <<delta_x, -delta_y, -angle>> >>

NegatedX(p) == <<-p[1], p[2], p[3]>>

\* C14: after any sequence of initialisations the table holds exactly the
\* primitives of the model initialised last, in order, whatever the table
\* held before: 3 for Dubin (forward, left, right), 6 for Reeds-Shepp (the
\* Dubin three, then each of them with x negated), 8 for Balkcom-Mason; and
\* getProjections returns one pose per primitive, the node's pose plus the
\* primitive, component by component.
C14_TableHoldsTheLastModelsPrimitives ==
  LET t == motion_table.projections
  IN  /\ (motion_call.op = "initDubin") => t = DubinThree
      /\ (motion_call.op = "initReedsShepp") =>
           /\ Len(t) = 6
           /\ SubSeq(t, 1, 3) = DubinThree
           /\ \A i \in 1..3 : t[i + 3] = NegatedX(DubinThree[i])
      /\ (motion_call.op = "initBalkcomMason") =>
           /\ Len(t) = 8
           /\ t[1] = <<sqrt_2, 0, 0>> /\ t[2] = <<-sqrt_2, 0, 0>>
           /\ t[3] = <<0, 0, BinSize(motion_call.n)>>
           /\ t[4] = <<0, 0, -BinSize(motion_call.n)>>
           /\ t[5] = <<sqrt_2, 0, BinSize(motion_call.n)>>
           /\ t[6] = <<-sqrt_2, 0, BinSize(motion_call.n)>>
           /\ t[7] = <<sqrt_2, 0, -BinSize(motion_call.n)>>
           /\ t[8] = <<-sqrt_2, 0, -BinSize(motion_call.n)>>
      /\ motion_call.projected =>
           /\ Len(motion_call.ret) = Len(t)
           /\ \A i \in 1..Len(t) : \A k \in 1..3 :
                motion_call.ret[i][k] = motion_call.pose[k] + t[i][k]

\* A Reeds-Shepp table initialised over the eight primitives of
\* Balkcom-Mason holds six, and getProjections has returned six poses.
C14_Witness ==
  /\ motion_call.op = "initReedsShepp"
  /\ motion_call.found = 8
  /\ Len(motion_table.projections) = 6
  /\ motion_call.projected
  /\ Len(motion_call.ret) = 6
  /\ motion_call.pose # DefaultPose

\* C15 (as claimed): whatever the yaws in [-180, 180] degrees and the bin
\* count N, the heading bins createPlan gives to setStart and setGoal are
\* in 0..N-1.
C15_HeadingBinsAreValid ==
  (a_star.start # Unset /\ a_star.goal # Unset) =>
    /\ a_star.start[3] \in 0..(a_star.num_angles - 1)
    /\ a_star.goal[3] \in 0..(a_star.num_angles - 1)

\* C16: the smoother, removeHook and the upsampler are reached only with a
\* list of at least 4 waypoints, so that removeHook's third-to-last point
\* exists; a shorter list is returned as it is, with none of them called;
\* and whenever createPlan returns a plan, the plan has no more poses than
\* the working list has waypoints.
C16_PostProcessingNeedsFourWaypoints ==
  /\ (pc \in {"smooth", "removeHook", "publish", "upsample"}) =>
       Len(path_world) >= 4
  /\ (trace.smooth_ok # "none") => Len(trace.smoother_in) >= 4
  /\ (trace.upsample_ok # "none") => Len(trace.upsampler_in) >= 4
  /\ (Returned /\ trace.returned_at = "too short") =>
       /\ Len(plan) < 4
       /\ trace.calls = <<>>
  /\ (Returned /\ trace.returned_at # "exception") =>
       Len(plan) <= Len(path_world)

\* A list of exactly four waypoints has gone through the smoother and
\* removeHook, the upsampler has failed leaving its insertions behind, and
\* the plan returned has fewer poses than the working list has waypoints.
C16_Witness ==
  /\ Returned
  /\ trace.returned_at = "end"
  /\ Len(trace.smoother_in) = 4
  /\ trace.calls = <<"smooth", "removeHook", "upsample">>
  /\ trace.upsample_ok = "false"
  /\ Len(plan) < Len(path_world)

====
